---- MODULE Spec2Model ----
(***************************************************************************)
(* A model of the stardust-player control (src/gplayer.js, lines 848-1378; *)
(* src/stardust-player.js holds the same code): the seek bar's scrub and   *)
(* preview pipelines, the thumbnail render and its cache, the animation    *)
(* loop (preview lookup, subtitles, rescheduling), the paused/playing      *)
(* state, the controls' auto-hide timer and the click/tap classifier of    *)
(* the video element, and the no-click class with the two 1 ms timers and  *)
(* the #screenIsTouched flag that lift it.                                 *)
(*                                                                         *)
(* Times are integers counted in ticks of 1/Scale second, Scale = 2^MaxK,  *)
(* so that duration / 2^i (i <= MaxK) is exact, as it is in binary         *)
(* floating point. The clock (Date.now(), timer deadlines) counts          *)
(* milliseconds and advances by Quantum.                                   *)
(***************************************************************************)
EXTENDS Integers, Sequences, FiniteSets, TLC

(* ------------------------------ bounds -------------------------------- *)
\* the largest options.previewImageIterations the model draws
MaxK == 3
\* thumbnail render tasks started in one behaviour
MaxRenders == 2
\* changes of the src attribute in one behaviour
MaxSrcChanges == 2
\* clock steps of one Quantum in one behaviour
MaxTicks == 7
\* clock steps in the behaviours of the click and tap classifier
TapTicks == 3
\* fetches of a sub attribute in flight at once
MaxFetches == 2
\* touch contacts on the video element at once
MaxTouches == 2
\* 1 ms timers of one kind counted as pending at once; one started beyond that
\* is merged with the pending ones
MaxGuards == 1
\* how many times the control is put into a document
MaxConnects == 2

Scale == 2 ^ MaxK
Sec(n) == n * Scale

(* --------------------------- JS number values ------------------------- *)
\* NaN and undefined are integers outside the range of every timecode
NaN == 0 - 1000001
Undefined == 0 - 1000002
\* Infinity and -Infinity, the quotients of a division by zero
Infinity == 1000003
NegInfinity == 0 - Infinity
IsNum(x) == x # NaN /\ x # Undefined
\* a finite number: what the setter of video.currentTime accepts
IsFinite(x) == IsNum(x) /\ x # Infinity /\ x # NegInfinity
\* relational operators: false as soon as an operand is NaN or undefined
Lt(a, b) == IsNum(a) /\ IsNum(b) /\ a < b
Ge(a, b) == IsNum(a) /\ IsNum(b) /\ a >= b
\* a * b / c: NaN as soon as an operand is NaN; x / 0 is Infinity, -Infinity or
\* (for 0 / 0) NaN; otherwise the inputs make the quotient exact
MulDiv(a, b, c) ==
    IF ~(IsNum(a) /\ IsNum(b) /\ IsNum(c)) THEN NaN
    ELSE IF c # 0 THEN (a * b) \div c
    ELSE IF a * b > 0 THEN Infinity
    ELSE IF a * b < 0 THEN NegInfinity
    ELSE NaN

\* function clamp(min, n, max)
clamp(min, n, max) ==
    LET hi == IF n > min THEN n ELSE min
    IN  IF hi < max THEN hi ELSE max

(* ------------------------------- media -------------------------------- *)
NoSrc == "none"
Sources == {"a", "b"}
\* the duration the media engine reports for a source once its metadata is loaded
MediaDuration(s) == IF s = "a" THEN Sec(40) ELSE Sec(100)

Bars == {"seekBar", "mobileSeekBar"}

(* ------------------------------- options ------------------------------ *)
doubleClickDuration == 250
doubleTapJumpDuration == 500
\* seconds
doubleTapJumpDistance == 5
\* options.doubleTapJumpScreenPortion = 0.2, in percent
doubleTapJumpScreenPortion == 20
\* options.hideControlsTimeout (hideControlsTimeout itself is the timer below)
hideControlsTimeoutDesktop == 1500
hideControlsTimeoutMobile == 3000

(* -------------------------------- clock ------------------------------- *)
\* the step of the clock: the shortest delay of the program
Quantum == doubleClickDuration
\* Date.now() when the control is connected: later than every threshold, as
\* lastClickTime and lastTapTime start at 0
StartTime == 4 * Quantum
MaxNow == StartTime + MaxTicks * Quantum
\* the value of a timer handle whose callback is not pending
NoTimer == 0 - 1

VARIABLES
    sortEngine,              \* how the host's Array.prototype.sort tests the comparator
    previewImageIterations,  \* options.previewImageIterations
    src,                     \* the src attribute = #videoElement.src
    mediaState,              \* #videoElement: "empty", "loading", "metadata", "loaded"
    duration,                \* #videoElement.duration (NaN while unknown)
    currentTime,             \* #videoElement.currentTime
    videoPaused,             \* #videoElement.paused
    loadeddataListeners,     \* number of loadeddata listeners on #videoElement
    renders,                 \* the #renderSeekBarPreviewImages tasks started so far
    seekbarPreviewImages,    \* #seekbarPreviewImages
    seekBarPreviewTimecode,  \* #seekBarPreviewTimecode
    previewImageSrc,         \* seekBar.previewImageSrc = mobileSeekBar.previewImageSrc
    srcChanges,              \* number of attributeChangedCallback('src') calls
    paused,                  \* #paused
    ended,                   \* #ended
    scrubbing,               \* per seek bar: the closure variable scrubbing
    seeking,                 \* per seek bar: #seeking
    intents,                 \* history: the events dispatched and the timer callbacks
                             \* run in the last step
    videoPausedAtDown,       \* history: #videoElement.paused when the scrub gesture began
    now,                     \* Date.now()
    mobile,                  \* classList.contains('mobile')
    controlsHidden,          \* classList.contains('controls-hidden')
    hideControlsTimeout,     \* deadline of the pending hideControlsTimeout, or NoTimer
    hideControlsPending,     \* number of pending timers started for hideControlsTimeout
    noClick,                 \* classList.contains('no-click')
    releaseIfUntouched,      \* the pending 1 ms timers of #updateHideControls
    playPauseTimeout,        \* deadline of the pending playPauseTimeout, or NoTimer
    playPausePending,        \* number of pending timers started for playPauseTimeout
    tapJumpTimeout,          \* deadline of the pending tapJumpTimeout, or NoTimer
    tapJumpPending,          \* number of pending timers started for tapJumpTimeout
    screenIsTouched,         \* #screenIsTouched
    releaseIfShown,          \* the pending 1 ms timers of the pointerup listener
    down,                    \* the pointers in contact with the video element
    revealedBy,              \* history: the touch contact, still down, whose
                             \* pointerdown showed the hidden controls (0: none)
    lastClickTime,           \* lastClickTime
    prevClickTime,           \* history: Date.now() of the last mouse pointerdown with
                             \* buttons = 1
    lastTapTime,             \* lastTapTime
    lastTapDirection,        \* history: direction of the contact that set lastTapTime
    deferredRan,             \* history: the playPauseTimeout started at lastClickTime has run
    fullscreen,              \* #fullscreen
    subtitles,               \* #subtitles
    subtitleObjects,         \* #subtitleObjects (NoTrack, undefined, until a track is parsed)
    subFetches,              \* the fetches of a sub attribute in flight, with their outcome
    lastSub,                 \* history: the outcome of the fetch of the sub value set last
    connects,                \* the number of times connectedCallback has run
    loops,                   \* the animationLoop callbacks requestAnimationFrame holds
    subtitleContainer,       \* subtitleContainer.innerHTML
    rafPending,              \* a requestAnimationFrame(animationLoop) callback is pending
    passes,                  \* history: parity of the number of animationLoop passes
    mounted                  \* the control is in the document

thumbVars == <<sortEngine, previewImageIterations, src, mediaState, duration,
               loadeddataListeners, renders, seekbarPreviewImages,
               seekBarPreviewTimecode, previewImageSrc, srcChanges>>
mediaVars == <<currentTime, videoPaused>>
scrubVars == <<paused, ended, scrubbing, seeking, videoPausedAtDown>>
clockVars == <<now, mobile>>
hideVars == <<controlsHidden, hideControlsTimeout, hideControlsPending, noClick,
              releaseIfUntouched>>
pointerVars == <<screenIsTouched, releaseIfShown, down, revealedBy>>
tapVars == <<playPauseTimeout, playPausePending, tapJumpTimeout, tapJumpPending,
             lastClickTime, prevClickTime, lastTapTime, lastTapDirection, deferredRan,
             fullscreen, pointerVars>>
syncVars == <<subtitles, subtitleObjects, subFetches, lastSub, subtitleContainer, rafPending,
              passes, mounted, connects, loops>>
vars == <<thumbVars, mediaVars, scrubVars, intents, clockVars, hideVars, tapVars, syncVars>>

NoImage == [src |-> NoSrc, at |-> 0]

(* ------------------------- Array.prototype.sort ------------------------ *)
\* (a, b) => a.timecode > b.timecode, the boolean converted by ToNumber
Compare(a, b) == IF a.timecode > b.timecode THEN 1 ELSE 0

\* Whether an insertion sort moves pivot in front of x. Engines differ in the
\* call they make: "negative" moves it when comparefn(pivot, x) < 0, "positive"
\* when comparefn(x, pivot) > 0. The two agree for every consistent comparator.
MovesBefore(pivot, x) ==
    IF sortEngine = "negative" THEN Compare(pivot, x) < 0 ELSE Compare(x, pivot) > 0

RECURSIVE InsertIndex(_, _, _)
\* the number of elements of arr[1..j] that stay in front of pivot
InsertIndex(arr, pivot, j) ==
    IF j >= 1 /\ MovesBefore(pivot, arr[j]) THEN InsertIndex(arr, pivot, j - 1) ELSE j

InsertSorted(arr, pivot) ==
    LET j == InsertIndex(arr, pivot, Len(arr))
    IN  SubSeq(arr, 1, j) \o <<pivot>> \o SubSeq(arr, j + 1, Len(arr))

RECURSIVE SortPrefix(_, _)
SortPrefix(arr, n) ==
    IF n = 0 THEN <<>> ELSE InsertSorted(SortPrefix(arr, n - 1), arr[n])

\* this.#seekbarPreviewImages.sort(...)
ArraySort(arr) == SortPrefix(arr, Len(arr))

(* --------------------------- thumbnail render -------------------------- *)
\* One task of #renderSeekBarPreviewImages, suspended in the await of
\* renderAndApplyPreviewImage(t) or finished. vsrc is the source of its own
\* video element; requested, startDuration and steady are history: the timecodes
\* asked for so far, #videoElement.duration when the task started, and whether
\* the src attribute has stayed unchanged since.
NewRender ==
    [ vsrc |-> src, i |-> 0, firstTimecode |-> 0, t |-> duration,
      phase |-> "waiting", stalled |-> FALSE,
      requested |-> <<duration>>, startDuration |-> duration, steady |-> TRUE ]

RECURSIVE OuterLoop(_, _)
\* for (let i = ...; i <= previewImageIterations; i++): the next sample, from
\* the head of iteration i on
OuterLoop(r, i) ==
    IF i > previewImageIterations
    THEN [r EXCEPT !.i = i, !.phase = "done"]
    ELSE LET first == MulDiv(duration, 1, 2 ^ i)
         IN  IF Lt(first, duration)
             THEN [r EXCEPT !.i = i, !.firstTimecode = first, !.t = first,
                            !.requested = Append(@, first)]
             ELSE OuterLoop(r, i + 1)

InnerStepSingle(r) == r.t + r.firstTimecode
InnerStepSparse(r) == r.t + r.firstTimecode * 4
InnerStepByCache(r) == r.t + r.firstTimecode * (1 + (Len(seekbarPreviewImages) % 2))
\* t += firstTimecode * 2
InnerStep(r) == r.t + r.firstTimecode * 2

\* the task after the await of its current sample returns
Continue(r) ==
    IF r.i = 0
    THEN OuterLoop(r, 1)
    ELSE LET t2 == InnerStep(r)
         IN  IF Lt(t2, duration)
             THEN [r EXCEPT !.t = t2, !.requested = Append(@, t2)]
             ELSE OuterLoop(r, r.i + 1)

Waiting(k) == k \in DOMAIN renders /\ renders[k].phase = "waiting"

\* The 10 ms poll of task k finds video.readyState >= 2: the frame is drawn,
\* pushed and the cache sorted, then the loops go on to the next sample.
PollResolves(k) ==
    /\ Waiting(k)
    /\ ~renders[k].stalled
    /\ seekbarPreviewImages' =
          ArraySort(Append(seekbarPreviewImages,
                           [ timecode |-> renders[k].t,
                             image |-> [src |-> renders[k].vsrc, at |-> renders[k].t] ]))
    /\ renders' = [renders EXCEPT ![k] = Continue(renders[k])]
    /\ UNCHANGED <<sortEngine, previewImageIterations, src, mediaState, duration,
                   loadeddataListeners, seekBarPreviewTimecode, previewImageSrc,
                   srcChanges, mediaVars, scrubVars,
                   clockVars, hideVars, tapVars, syncVars>>
    /\ intents' = <<>>

\* The decoder of task k never delivers the frame asked for: readyState stays
\* below 2 for good.
DecodeStalls(k) ==
    /\ Waiting(k)
    /\ ~renders[k].stalled
    /\ renders' = [renders EXCEPT ![k].stalled = TRUE]
    /\ UNCHANGED <<sortEngine, previewImageIterations, src, mediaState, duration,
                   loadeddataListeners, seekbarPreviewImages, seekBarPreviewTimecode,
                   previewImageSrc, srcChanges, mediaVars, scrubVars,
                   clockVars, hideVars, tapVars, syncVars>>
    /\ intents' = <<>>

(* ------------------------ attributeChangedCallback --------------------- *)
\* case 'src': the media element loads the new source (its load algorithm
\* pauses it, rewinds it and forgets the duration); one more loadeddata listener
\* is added, and removeEventListener(undefined) removes none.
SetSrc(s) ==
    /\ srcChanges < MaxSrcChanges
    /\ srcChanges' = srcChanges + 1
    /\ src' = s
    /\ mediaState' = "loading"
    /\ duration' = NaN
    /\ currentTime' = 0
    /\ videoPaused' = TRUE
    /\ loadeddataListeners' = loadeddataListeners + 1
    /\ renders' = [k \in DOMAIN renders |->
                     IF renders[k].phase = "waiting"
                     THEN [renders[k] EXCEPT !.steady = FALSE] ELSE renders[k]]
    /\ UNCHANGED <<sortEngine, previewImageIterations, seekbarPreviewImages,
                   seekBarPreviewTimecode, previewImageSrc, scrubVars,
                   clockVars, hideVars, tapVars, syncVars>>
    /\ intents' = <<>>

\* the media engine has read the metadata of the current source
LoadedMetadata ==
    /\ mediaState = "loading"
    /\ mediaState' = "metadata"
    /\ duration' = MediaDuration(src)
    /\ UNCHANGED <<sortEngine, previewImageIterations, src, loadeddataListeners,
                   renders, seekbarPreviewImages, seekBarPreviewTimecode,
                   previewImageSrc, srcChanges, mediaVars, scrubVars,
                   clockVars, hideVars, tapVars, syncVars>>
    /\ intents' = <<>>

RECURSIVE Times(_, _)
Times(n, x) == IF n = 0 THEN <<>> ELSE Append(Times(n - 1, x), x)

\* loadeddata: every listener calls #renderSeekBarPreviewImages, which empties
\* the cache and runs up to the await of its first sample, t = duration.
LoadedData ==
    /\ mediaState = "metadata"
    /\ Len(renders) + loadeddataListeners <= MaxRenders
    /\ mediaState' = "loaded"
    /\ seekbarPreviewImages' = <<>>
    /\ renders' = renders \o Times(loadeddataListeners, NewRender)
    /\ UNCHANGED <<sortEngine, previewImageIterations, src, duration,
                   loadeddataListeners, seekBarPreviewTimecode, previewImageSrc,
                   srcChanges, mediaVars, scrubVars,
                   clockVars, hideVars, tapVars, syncVars>>
    /\ intents' = <<>>

(* ----------------------------- animationLoop --------------------------- *)
RECURSIVE FirstAtOrAfter(_, _, _)
\* for (const frame of cache) if (frame.timecode >= q) ... break: the index of
\* the frame the scan stops at, 0 when it runs through
FirstAtOrAfter(cache, q, n) ==
    IF n > Len(cache) THEN 0
    ELSE IF Ge(cache[n].timecode, q) THEN n
    ELSE FirstAtOrAfter(cache, q, n + 1)

PreviewScanStrict(cache, q, shown) ==
    LET S == {n \in DOMAIN cache : Lt(q, cache[n].timecode)}
    IN  IF S = {} THEN shown ELSE cache[CHOOSE n \in S : \A m \in S : n <= m].image
\* the image the popover shows after the scan
PreviewScan(cache, q, shown) ==
    LET n == FirstAtOrAfter(cache, q, 1)
    IN  IF n = 0 THEN shown ELSE cache[n].image

\* the markup of a subtitle text, DOMPurify.sanitize(marked.parse(text)): the
\* text wrapped in a paragraph; '' is the empty markup
EmptyHTML == [tag |-> "", text |-> ""]
Markup(text) == [tag |-> "p", text |-> text]

SubtitleActiveClosed(ct, subtitle) ==
    Ge(ct, subtitle.start) /\ IsNum(subtitle.end) /\ ct <= subtitle.end
\* currentTime >= subtitle.start && currentTime < subtitle.end
SubtitleActive(ct, subtitle) == Ge(ct, subtitle.start) /\ Lt(ct, subtitle.end)

RECURSIVE FirstActive(_, _, _)
\* for (const subtitle of track) if (...) { ...; break }: the index the scan
\* stops at, 0 when it runs through
FirstActive(track, ct, n) ==
    IF n > Len(track) THEN 0
    ELSE IF SubtitleActive(ct, track[n]) THEN n
    ELSE FirstActive(track, ct, n + 1)

\* newSubtitles after the scan of a parsed track
NewSubtitles(enabled, track, ct) ==
    IF ~enabled THEN EmptyHTML
    ELSE LET n == FirstActive(track, ct, 1)
         IN  IF n = 0 THEN EmptyHTML ELSE Markup(track[n].text)

\* #subtitleObjects: undefined, or the cues parseSRT returned
NoTrack == [parsed |-> FALSE, cues |-> <<>>]
Parsed(track) == [parsed |-> TRUE, cues |-> track]

\* for (... of this.#subtitleObjects) throws a TypeError while no track has been
\* parsed: undefined is not iterable
SubtitlesThrow == subtitles /\ ~subtitleObjects.parsed

\* One pass of animationLoop, run by a pending requestAnimationFrame callback.
\* A pass that throws in the subtitle scan ends there: it leaves the subtitle
\* container alone and does not reach requestAnimationFrame(animationLoop), so
\* its loop is over; any other pass requests its one successor.
animationLoop ==
    /\ rafPending
    /\ previewImageSrc' = PreviewScan(seekbarPreviewImages, seekBarPreviewTimecode,
                                      previewImageSrc)
    /\ subtitleContainer' =
          IF SubtitlesThrow THEN subtitleContainer
          ELSE NewSubtitles(subtitles, subtitleObjects.cues, currentTime)
    /\ loops' = IF SubtitlesThrow THEN loops - 1 ELSE loops
    /\ rafPending' = (loops' > 0)
    /\ passes' = 1 - passes
    /\ UNCHANGED <<sortEngine, previewImageIterations, src, mediaState, duration,
                   loadeddataListeners, renders, seekbarPreviewImages,
                   seekBarPreviewTimecode, srcChanges, mediaVars, scrubVars,
                   clockVars, hideVars, tapVars, subtitles, subtitleObjects, subFetches,
                   lastSub, connects,
                   mounted>>
    /\ intents' = <<>>

(* -------------------------- media element, paused ---------------------- *)
\* #videoElement.play(): playback that had ended starts over from 0
PlayTime(ct) == IF IsNum(duration) /\ ct = duration THEN 0 ELSE ct

\* video.currentTime = time: a finite time is clamped into [0, duration] by the
\* media engine; a non-finite one throws a TypeError and changes nothing
Seek(ct, time) ==
    IF IsFinite(time) /\ IsNum(duration) THEN clamp(0, time, duration) ELSE ct

\* the delay of hideControlsTimeout
HideDelay == IF mobile THEN hideControlsTimeoutMobile ELSE hideControlsTimeoutDesktop

showOnly ==
    /\ controlsHidden' = FALSE
    /\ UNCHANGED <<noClick, releaseIfUntouched, hideControlsTimeout, hideControlsPending>>

\* the handle of a timer slot after clearTimeout(handle): its timer, if it was
\* pending, is cancelled
keepTimeout(timer) == timer
clearTimeout(timer) == NoTimer
\* the number of pending timers a handle refers to
Pending(timer) == IF timer = NoTimer THEN 0 ELSE 1
\* the pending timers of a slot after clearTimeout(timer)
AfterClear(count, timer) == count - (Pending(timer) - Pending(clearTimeout(timer)))
\* the same after every pointerdown listener on the video element, one per run
\* of connectedCallback, has cleared the timer of its own closure
AfterClearAll(count, timer) == count + connects * AfterClear(0, timer)

\* the 1 ms timers of one kind: how many are pending.  1 ms is shorter than
\* the step of the clock: a pending one runs before the clock advances, after
\* any of the events that fall into the same step of the clock.
NoGuard == 0
\* setTimeout(..., 1)
AddGuard(g) == IF g < MaxGuards THEN g + 1 ELSE g
\* one of them has run
RunGuard(g) == g - 1
GuardDue(g) == g > 0

\* #updateHideControls(): the controls are shown, a 1 ms timer is started and
\* hideControlsTimeout is cleared and started anew
updateHideControls ==
    /\ controlsHidden' = FALSE
    /\ noClick' = noClick
    /\ releaseIfUntouched' = AddGuard(releaseIfUntouched)
    /\ hideControlsTimeout' = now + HideDelay
    /\ hideControlsPending' = AfterClear(hideControlsPending, hideControlsTimeout) + 1

updatePausedQuiet(p) ==
    /\ videoPaused' = p
    /\ currentTime' = IF p THEN currentTime ELSE PlayTime(currentTime)
    /\ UNCHANGED hideVars

\* #updatePaused, after #paused has become p
updatePaused(p) ==
    /\ videoPaused' = p
    /\ currentTime' = IF p THEN currentTime ELSE PlayTime(currentTime)
    /\ updateHideControls

\* togglePaused(): this.paused = !this.paused
togglePaused ==
    /\ paused' = ~paused
    /\ updatePaused(~paused)

(* ------------------------------ StardustSeekBar ------------------------ *)
BarOrder == <<"seekBar", "mobileSeekBar">>

\* what getBoundingClientRect() returns for each seek bar
BarRect(b) ==
    IF b = "seekBar" THEN [left |-> 150, width |-> 100, height |-> 10, preview |-> 40]
    ELSE [left |-> 100, width |-> 200, height |-> 10, preview |-> 40]
\* a seek bar squeezed to no width by its container, and one that is not
\* displayed (display: none)
CollapsedRect(b) == [BarRect(b) EXCEPT !.width = 0]
HiddenRect(b) == [left |-> 0, width |-> 0, height |-> 0, preview |-> 0]
\* a thumbnail rendered wider than the desktop bar and narrower than the mobile one
WidePreviewRect(b) == [BarRect(b) EXCEPT !.preview = 160]
Layouts == { [b \in Bars |-> BarRect(b)] }
ZeroWidthLayouts == { [b \in Bars |-> CollapsedRect(b)], [b \in Bars |-> HiddenRect(b)] }
WidePreviewLayouts == { [b \in Bars |-> WidePreviewRect(b)] }
\* pointer positions, left of, on and right of both bars
ClientXs == {50, 200, 250, 350}

\* event.time of timechange
ScrubTime(clientX, rect) == MulDiv(duration, clientX - rect.left, rect.width)

\* previewTime of the preview pointermove listener
PreviewTime(clientX, rect) ==
    MulDiv(clamp(0, clientX - rect.left, rect.width), duration, rect.width)

Intent(type, b, time, clientX, rect) ==
    [ type |-> type, bar |-> b, time |-> time, clientX |-> clientX,
      left |-> rect.left, width |-> rect.width, duration |-> duration ]

updateScrubbingUnguarded(flag, b, clientX, rect) ==
    <<Intent("timechange", b, ScrubTime(clientX, rect), clientX, rect)>>
\* updateScrubbing(e), with the value flag of the closure variable scrubbing
updateScrubbing(flag, b, clientX, rect) ==
    IF ~flag THEN <<>>
    ELSE <<Intent("timechange", b, ScrubTime(clientX, rect), clientX, rect)>>

PopoverLeftUnclamped(clientX, rect) == clientX - rect.left

\* pos of the preview pointermove listener: the pointer's offset into the bar,
\* raised to half the thumbnail's width and then lowered to the bar's width
\* less that half (thumbnail widths are even, so the halves are whole pixels)
PopoverLeft(clientX, rect) ==
    LET half == rect.preview \div 2
        pos == clientX - rect.left
        raised == IF pos < half THEN half ELSE pos
    IN  IF raised > rect.width - half THEN rect.width - half ELSE raised

\* popover.style.left = `${pos}px`
Popover(b, clientX, rect) ==
    [ type |-> "popover", bar |-> b, pos |-> PopoverLeft(clientX, rect),
      clientX |-> clientX, left |-> rect.left, width |-> rect.width,
      preview |-> rect.preview ]

\* the preview pointermove listener of one seek bar
previewPointerMove(b, clientX, rect) ==
    IF rect.width + rect.height = 0 THEN <<>>
    ELSE <<Intent("previewtimechange", b, PreviewTime(clientX, rect), clientX, rect),
           Popover(b, clientX, rect)>>

SeekingIntent(b, flag) == [type |-> "seekingchange", bar |-> b, seeking |-> flag]

RECURSIVE AfterTimechanges(_, _, _)
\* currentTime after the timechange listener has handled evs[n..]
AfterTimechanges(ct, evs, n) ==
    IF n > Len(evs) THEN ct
    ELSE AfterTimechanges(IF evs[n].type = "timechange" THEN Seek(ct, evs[n].time) ELSE ct,
                          evs, n + 1)

RECURSIVE AfterPreviewchanges(_, _, _)
\* #seekBarPreviewTimecode after the previewtimechange listener has handled evs[n..]
AfterPreviewchanges(q, evs, n) ==
    IF n > Len(evs) THEN q
    ELSE AfterPreviewchanges(IF evs[n].type = "previewtimechange" THEN evs[n].time ELSE q,
                             evs, n + 1)

SeekingchangePausesOnlySeeking(flag) == flag
\* the seekingchange listener: (e.seeking || this.#paused) ? pause() : play()
SeekingchangePauses(flag) == flag \/ paused

AnyScrubbing == \E b \in Bars : scrubbing[b]

\* pointerdown on the click area of seek bar b
ClickAreaPointerDown(b, clientX, layout) ==
    LET evs == updateScrubbing(TRUE, b, clientX, layout[b]) \o <<SeekingIntent(b, TRUE)>>
    IN  /\ scrubbing' = [scrubbing EXCEPT ![b] = TRUE]
        /\ seeking' = [seeking EXCEPT ![b] = TRUE]
        /\ intents' = evs
        /\ currentTime' = AfterTimechanges(currentTime, evs, 1)
        /\ videoPaused' = SeekingchangePauses(TRUE)
        /\ videoPausedAtDown' = IF AnyScrubbing THEN videoPausedAtDown ELSE videoPaused
        /\ updateHideControls
        /\ UNCHANGED <<thumbVars, paused, ended, clockVars, tapVars, syncVars>>

\* pointermove on the document: for each seek bar, in the order the listeners
\* were added, updateScrubbing and then the preview listener
DocumentPointerMove(clientX, layout) ==
    LET of(b) == updateScrubbing(scrubbing[b], b, clientX, layout[b])
                 \o previewPointerMove(b, clientX, layout[b])
        evs == of(BarOrder[1]) \o of(BarOrder[2])
    IN  /\ intents' = evs
        /\ currentTime' = AfterTimechanges(currentTime, evs, 1)
        /\ seekBarPreviewTimecode' = AfterPreviewchanges(seekBarPreviewTimecode, evs, 1)
        /\ UNCHANGED <<sortEngine, previewImageIterations, src, mediaState, duration,
                       loadeddataListeners, renders, seekbarPreviewImages,
                       previewImageSrc, srcChanges, videoPaused, paused, ended,
                       scrubbing, seeking, videoPausedAtDown,
                       clockVars, hideVars, tapVars, syncVars>>

\* pointerup on the document: each seek bar that is scrubbing stops, calls
\* updateScrubbing (scrubbing is false by then) and dispatches seekingchange
DocumentPointerUp(clientX, layout) ==
    LET of(b) == IF scrubbing[b]
                 THEN updateScrubbing(FALSE, b, clientX, layout[b])
                      \o <<SeekingIntent(b, FALSE)>>
                 ELSE <<>>
        evs == of(BarOrder[1]) \o of(BarOrder[2])
        pause == SeekingchangePauses(FALSE)
    IN  /\ scrubbing' = [b \in Bars |-> FALSE]
        /\ seeking' = [b \in Bars |-> FALSE]
        /\ intents' = evs
        /\ videoPaused' = IF AnyScrubbing THEN pause ELSE videoPaused
        /\ currentTime' = LET ct == AfterTimechanges(currentTime, evs, 1)
                          IN  IF AnyScrubbing /\ ~pause THEN PlayTime(ct) ELSE ct
        /\ IF AnyScrubbing THEN updateHideControls ELSE UNCHANGED hideVars
        /\ UNCHANGED <<thumbVars, paused, ended, videoPausedAtDown,
                       clockVars, tapVars, syncVars>>

(* ------------------------------ StardustPlayer ------------------------- *)
PauseKeys == {" ", "k"}
JumpKeys == {"ArrowLeft", "ArrowRight", "j", "l"}
\* the keys of the keydown listener, but for 'm' (muted is not part of the state)
Keys == PauseKeys \cup JumpKeys \cup {"f", "c", "Escape"}

\* what a jump key adds to currentTime
KeyJump(key) ==
    CASE key = "ArrowLeft" -> 0 - Sec(5)
      [] key = "ArrowRight" -> Sec(5)
      [] key = "j" -> 0 - Sec(10)
      [] key = "l" -> Sec(10)

\* keydown on the player; a focused button takes the space key for itself
KeyDown(key, buttonFocused) ==
    /\ mounted
    /\ updateHideControls
    /\ IF key \in PauseKeys /\ ~(key = " " /\ buttonFocused)
       THEN togglePaused
       ELSE /\ UNCHANGED <<paused, videoPaused>>
            /\ currentTime' = IF key \in JumpKeys
                               THEN Seek(currentTime, currentTime + KeyJump(key))
                               ELSE currentTime
    /\ fullscreen' = IF key = "f" THEN ~fullscreen
                     ELSE IF key = "Escape" THEN FALSE ELSE fullscreen
    /\ subtitles' = IF key = "c" THEN ~subtitles ELSE subtitles
    /\ UNCHANGED <<thumbVars, ended, scrubbing, seeking, videoPausedAtDown, clockVars,
                   playPauseTimeout, playPausePending, tapJumpTimeout, tapJumpPending,
                   lastClickTime, prevClickTime, lastTapTime, lastTapDirection,
                   deferredRan, pointerVars,
                   subtitleObjects, subFetches, lastSub, connects, loops, subtitleContainer,
                   rafPending, passes,
                   mounted>>
    /\ intents' = <<>>

\* click on playPauseButton or mobilePlayPauseButton
PlayPauseButtonClick ==
    /\ mounted
    /\ togglePaused
    /\ UNCHANGED <<thumbVars, ended, scrubbing, seeking, videoPausedAtDown,
                   clockVars, tapVars, syncVars>>
    /\ intents' = <<>>

\* the media engine plays on by a quarter of the duration
Playback ==
    /\ ~videoPaused
    /\ Lt(currentTime, duration)
    /\ currentTime' = clamp(0, currentTime + duration \div 4, duration)
    /\ UNCHANGED <<thumbVars, videoPaused, scrubVars, clockVars, hideVars, tapVars, syncVars>>
    /\ intents' = <<>>

\* 'ended' of #videoElement, fired with the playback position at the end
MediaEnded ==
    /\ IsNum(duration) /\ currentTime = duration
    /\ ended' = TRUE
    /\ paused' = TRUE
    /\ updatePaused(TRUE)
    /\ UNCHANGED <<thumbVars, scrubbing, seeking, videoPausedAtDown,
                   clockVars, tapVars, syncVars>>
    /\ intents' = <<>>

\* 'timeupdate' of #videoElement
TimeUpdate ==
    /\ mediaState # "empty"
    /\ ended' = FALSE
    /\ UNCHANGED <<thumbVars, mediaVars, paused, scrubbing, seeking, videoPausedAtDown,
                   clockVars, hideVars, tapVars, syncVars>>
    /\ intents' = <<>>

\* click on subtitlesButton or mobileSubtitlesButton
SubtitlesButtonClick ==
    /\ mounted
    /\ subtitles' = ~subtitles
    /\ UNCHANGED <<thumbVars, mediaVars, scrubVars, clockVars, hideVars, tapVars,
                   subtitleObjects, subFetches, lastSub, connects, loops, subtitleContainer,
                   rafPending, passes,
                   mounted>>
    /\ intents' = <<>>

\* the subtitle tracks parseSRT returns: the one of two consecutive cues and one
\* whose cues overlap
Tracks ==
    { << [start |-> Sec(0), end |-> Sec(2), text |-> "a"],
         [start |-> Sec(2), end |-> Sec(4), text |-> "b"] >>,
      << [start |-> Sec(0), end |-> Sec(10), text |-> "a"],
         [start |-> Sec(5), end |-> Sec(15), text |-> "b"],
         [start |-> Sec(25), end |-> Sec(30), text |-> "c"] >> }

\* The text of a response, as parseSRT splits it: the blocks between empty
\* lines, each the sequence of its lines.  A line is its text, and for a line
\* of the form "start --> end" the two timecodes.
TextLine(text) == [arrow |-> FALSE, start |-> NaN, end |-> NaN, text |-> text]
TimingLine(start, end) == [arrow |-> TRUE, start |-> start, end |-> end, text |-> "-->"]

\* the SubRip text of a track: per cue its number, its timing line and its text
SRT(track) ==
    [n \in DOMAIN track |->
        << TextLine("n"), TimingLine(track[n].start, track[n].end), TextLine(track[n].text) >>]

\* the texts a server answers with: the two tracks, an empty text, a text whose
\* only block is one line, and a text of three lines that is no SubRip block
EmptyBody == <<>>
OneLineBody == << <<TextLine("Not Found")>> >>
NotSRTBody == << <<TextLine("x"), TextLine("y"), TextLine("z")>> >>
Bodies == {SRT(track) : track \in Tracks} \cup {EmptyBody, OneLineBody, NotSRTBody}

\* the outcomes of fetch(newValue): the promise rejects (network error) or it
\* resolves with a response, whatever its HTTP status
Rejected == [resolved |-> FALSE, body |-> EmptyBody]
Response(body) == [resolved |-> TRUE, body |-> body]
Outcomes == {Rejected} \cup {Response(body) : body \in Bodies}

\* block[1].split('-->'): block[1] is undefined in a block of one line, and
\* undefined.split throws
ParseThrows(body) == \E n \in DOMAIN body : Len(body[n]) < 2

\* [ start, end ] = block[1].split('-->').map(...): a line without '-->' is one
\* piece, whose parseSRTTimecode is NaN, and leaves end undefined
parseSRTEnd(line) == IF line.arrow THEN line.end ELSE Undefined
parseSRT(body) ==
    [n \in DOMAIN body |->
        [start |-> body[n][2].start, end |-> parseSRTEnd(body[n][2]), text |-> body[n][3].text]]

\* case 'sub': the fetch of the track has resolved and parseSRT has returned
SubtitlesParsed(track) ==
    /\ subtitleObjects' = Parsed(track)
    /\ lastSub' = Response(SRT(track))
    /\ UNCHANGED <<thumbVars, mediaVars, scrubVars, clockVars, hideVars, tapVars,
                   subtitles, subFetches, connects, loops, subtitleContainer, rafPending, passes,
                   mounted>>
    /\ intents' = <<>>

\* case 'sub': fetch(newValue) is started; nothing else happens in this step
SetSub(outcome) ==
    /\ Len(subFetches) < MaxFetches
    /\ subFetches' = Append(subFetches, outcome)
    /\ lastSub' = outcome
    /\ UNCHANGED <<thumbVars, mediaVars, scrubVars, clockVars, hideVars, tapVars,
                   subtitles, subtitleObjects, subtitleContainer, rafPending, passes,
                   mounted, connects, loops>>
    /\ intents' = <<>>

RemoveAt(seq, n) == SubSeq(seq, 1, n - 1) \o SubSeq(seq, n + 1, Len(seq))

\* One of the fetches in flight settles.  A rejected fetch, and a parseSRT that
\* throws, end the promise chain before the assignment; otherwise
\* this.#subtitleObjects = parseSRT(text).
SubFetchSettles(n) ==
    /\ n \in DOMAIN subFetches
    /\ subFetches' = RemoveAt(subFetches, n)
    /\ subtitleObjects' =
          IF ~subFetches[n].resolved \/ ParseThrows(subFetches[n].body) THEN subtitleObjects
          ELSE Parsed(parseSRT(subFetches[n].body))
    /\ UNCHANGED <<thumbVars, mediaVars, scrubVars, clockVars, hideVars, tapVars,
                   subtitles, lastSub, subtitleContainer, rafPending, passes, mounted,
                   connects, loops>>
    /\ intents' = <<>>

(* ------------------------- timers and the clock ------------------------ *)
\* the callback of a timer is due
Due(timer) == timer # NoTimer /\ timer <= now

\* the record a timer callback or a pointerdown leaves in the history
Ran(name) == <<[type |-> name]>>

\* time passes by one Quantum; a timer callback that is due runs first
Tick ==
    /\ now < MaxNow
    /\ ~Due(hideControlsTimeout) /\ ~Due(playPauseTimeout) /\ ~Due(tapJumpTimeout)
    /\ ~GuardDue(releaseIfUntouched) /\ ~GuardDue(releaseIfShown)
    /\ now' = now + Quantum
    /\ UNCHANGED <<thumbVars, mediaVars, scrubVars, mobile, hideVars, tapVars, syncVars>>
    /\ intents' = <<>>

HideInertPausedOnly == paused
HideInertAlways == TRUE
\* if (this.paused) return; if (this.#ended) return
HideInert == paused \/ ended

\* the callback of hideControlsTimeout
HideControlsTimeoutFires ==
    /\ Due(hideControlsTimeout)
    /\ hideControlsTimeout' = NoTimer
    /\ hideControlsPending' = hideControlsPending - 1
    /\ controlsHidden' = IF HideInert THEN controlsHidden ELSE TRUE
    /\ noClick' = IF HideInert THEN noClick ELSE TRUE
    /\ UNCHANGED releaseIfUntouched
    /\ UNCHANGED <<thumbVars, mediaVars, scrubVars, clockVars, tapVars, syncVars>>
    /\ intents' = Ran("hideControlsTimeout")

\* pointermove on the player
PlayerPointerMove(pointerType) ==
    /\ mounted
    /\ IF pointerType = "mouse" THEN updateHideControls ELSE UNCHANGED hideVars
    /\ UNCHANGED <<thumbVars, mediaVars, scrubVars, clockVars, tapVars, syncVars>>
    /\ intents' = <<>>

(* ---------------------- pointerdown on the video element --------------- *)
\* the pointers: the mouse and the touch contacts
MousePointer == 0
TouchPointers == 1 .. MaxTouches
Pointers == {MousePointer} \cup TouchPointers
\* the pointerId of a new touch contact
NewTouch == CHOOSE p \in TouchPointers \ down : \A q \in TouchPointers \ down : p <= q

\* Date.now() - lastClickTime <= this.options.doubleClickDuration
WithinDoubleClick == now - lastClickTime <= doubleClickDuration

\* pointerdown with pointerType 'mouse' and e.buttons = buttons: each run of
\* connectedCallback has added one listener with closure variables of its own
MouseDown(buttons) ==
    /\ mounted
    /\ MousePointer \notin down
    /\ IF buttons # 1
       THEN /\ UNCHANGED <<hideVars, playPauseTimeout, playPausePending, lastClickTime,
                           prevClickTime, deferredRan, fullscreen>>
            /\ intents' = <<>>
       ELSE /\ updateHideControls
            /\ IF WithinDoubleClick
               THEN /\ fullscreen' = IF connects % 2 = 1 THEN ~fullscreen ELSE fullscreen
                    /\ playPauseTimeout' = clearTimeout(playPauseTimeout)
                    /\ playPausePending' = AfterClearAll(playPausePending, playPauseTimeout)
                    /\ UNCHANGED <<lastClickTime, deferredRan>>
               ELSE /\ fullscreen' = fullscreen
                    /\ playPauseTimeout' = now + doubleClickDuration
                    /\ playPausePending' =
                          AfterClearAll(playPausePending, playPauseTimeout) + connects
                    /\ lastClickTime' = now
                    /\ deferredRan' = FALSE
            /\ prevClickTime' = now
            /\ intents' = Ran("mousedown")
    /\ screenIsTouched' = TRUE
    /\ down' = down \cup {MousePointer}
    /\ UNCHANGED <<thumbVars, mediaVars, scrubVars, clockVars, syncVars, tapJumpTimeout,
                   tapJumpPending, lastTapTime, lastTapDirection, releaseIfShown,
                   revealedBy>>

\* the callback of one playPauseTimeout; the others that are pending have the
\* same deadline
PlayPauseTimeoutFires ==
    /\ Due(playPauseTimeout)
    /\ playPauseTimeout' = IF playPausePending > 1 THEN playPauseTimeout ELSE NoTimer
    /\ playPausePending' = playPausePending - 1
    /\ deferredRan' = TRUE
    /\ togglePaused
    /\ UNCHANGED <<thumbVars, ended, scrubbing, seeking, videoPausedAtDown, clockVars,
                   tapJumpTimeout, tapJumpPending, lastClickTime, prevClickTime,
                   lastTapTime, lastTapDirection, fullscreen, pointerVars, syncVars>>
    /\ intents' = Ran("playPauseTimeout")

\* this.offsetLeft and this.offsetWidth of the player
PlayerLeft == 100
PlayerWidth == 200
\* touch positions: on the edge of the left zone, in the centre and on the edge
\* of the right zone
TouchXs == {140, 200, 260}

\* portion <= doubleTapJumpScreenPortion ? 'l'
\*    : (portion >= 1 - doubleTapJumpScreenPortion ? 'r' : '')
direction(clientX) ==
    IF (clientX - PlayerLeft) * 100 <= doubleTapJumpScreenPortion * PlayerWidth THEN "l"
    ELSE IF (clientX - PlayerLeft) * 100 >= (100 - doubleTapJumpScreenPortion) * PlayerWidth
         THEN "r"
    ELSE ""

\* Date.now() - lastTapTime <= this.options.doubleTapJumpDuration
WithinDoubleTap == now - lastTapTime <= doubleTapJumpDuration

\* classList.add('controls-hidden'); classList.add('no-click')
addControlsHidden ==
    /\ controlsHidden' = TRUE
    /\ noClick' = TRUE
    /\ UNCHANGED <<hideControlsTimeout, hideControlsPending, releaseIfUntouched>>

showControls == updateHideControls
hideControls == addControlsHidden
\* controls-hidden ? #updateHideControls() : add controls-hidden and no-click
toggleControls == IF controlsHidden THEN updateHideControls ELSE addControlsHidden

\* pointerdown with a pointerType other than 'mouse'
TouchDown(clientX) ==
    LET dir == direction(clientX)
        jump == IF dir = "r" THEN Sec(doubleTapJumpDistance)
                ELSE 0 - Sec(doubleTapJumpDistance)
    IN  /\ mounted
        /\ TouchPointers \ down # {}
        /\ IF dir # ""
           THEN /\ IF WithinDoubleTap
                   THEN /\ currentTime' = Seek(currentTime, currentTime + jump)
                        /\ tapJumpTimeout' = clearTimeout(tapJumpTimeout)
                        /\ tapJumpPending' = AfterClear(tapJumpPending, tapJumpTimeout)
                   ELSE /\ currentTime' = currentTime
                        /\ tapJumpTimeout' = now + doubleTapJumpDuration
                        /\ tapJumpPending' =
                              AfterClear(tapJumpPending, tapJumpTimeout) + 1
                /\ lastTapTime' = now
                /\ lastTapDirection' = dir
                /\ UNCHANGED hideVars
           ELSE /\ tapJumpTimeout' = clearTimeout(tapJumpTimeout)
                /\ tapJumpPending' = AfterClear(tapJumpPending, tapJumpTimeout)
                /\ toggleControls
                /\ UNCHANGED <<currentTime, lastTapTime, lastTapDirection>>
        /\ screenIsTouched' = TRUE
        /\ down' = down \cup {NewTouch}
        /\ revealedBy' = IF dir = "" /\ controlsHidden THEN NewTouch ELSE revealedBy
        /\ UNCHANGED <<thumbVars, videoPaused, scrubVars, clockVars, playPauseTimeout,
                       playPausePending, lastClickTime, prevClickTime, deferredRan,
                       fullscreen, releaseIfShown, syncVars>>
        /\ intents' = Ran("touchdown")

\* the callback of tapJumpTimeout
TapJumpTimeoutFires ==
    /\ Due(tapJumpTimeout)
    /\ tapJumpTimeout' = NoTimer
    /\ tapJumpPending' = tapJumpPending - 1
    /\ toggleControls
    /\ UNCHANGED <<thumbVars, mediaVars, scrubVars, clockVars, playPauseTimeout,
                   playPausePending, lastClickTime, prevClickTime, lastTapTime,
                   lastTapDirection, deferredRan, fullscreen, pointerVars, syncVars>>
    /\ intents' = Ran("tapJumpTimeout")

\* pointerup on the video element, of the mouse or of a touch contact
VideoPointerUp(p) ==
    /\ mounted
    /\ p \in down
    /\ screenIsTouched' = FALSE
    /\ releaseIfShown' = AddGuard(releaseIfShown)
    /\ down' = down \ {p}
    /\ revealedBy' = IF revealedBy = p THEN 0 ELSE revealedBy
    /\ UNCHANGED <<thumbVars, mediaVars, scrubVars, clockVars, hideVars, playPauseTimeout,
                   playPausePending, tapJumpTimeout, tapJumpPending, lastClickTime,
                   prevClickTime, lastTapTime, lastTapDirection, deferredRan, fullscreen,
                   syncVars>>
    /\ intents' = Ran("pointerup")

\* the callback of the 1 ms timer of #updateHideControls
ReleaseIfUntouchedFires ==
    /\ GuardDue(releaseIfUntouched)
    /\ releaseIfUntouched' = RunGuard(releaseIfUntouched)
    /\ noClick' = IF ~screenIsTouched THEN FALSE ELSE noClick
    /\ UNCHANGED <<thumbVars, mediaVars, scrubVars, clockVars, controlsHidden,
                   hideControlsTimeout, hideControlsPending, tapVars, syncVars>>
    /\ intents' = Ran("releaseIfUntouched")

\* the callback of the 1 ms timer of the pointerup listener
ReleaseIfShownFires ==
    /\ GuardDue(releaseIfShown)
    /\ releaseIfShown' = RunGuard(releaseIfShown)
    /\ noClick' = IF ~controlsHidden THEN FALSE ELSE noClick
    /\ UNCHANGED <<thumbVars, mediaVars, scrubVars, clockVars, controlsHidden,
                   hideControlsTimeout, hideControlsPending, releaseIfUntouched,
                   playPauseTimeout, playPausePending, tapJumpTimeout, tapJumpPending,
                   lastClickTime, prevClickTime, lastTapTime, lastTapDirection,
                   deferredRan, fullscreen, screenIsTouched, down, revealedBy, syncVars>>
    /\ intents' = Ran("releaseIfShown")

\* the control is removed from the document; the class has no
\* disconnectedCallback
Unmount ==
    /\ mounted
    /\ mounted' = FALSE
    /\ UNCHANGED <<thumbVars, mediaVars, scrubVars, clockVars, hideVars, tapVars,
                   subtitles, subtitleObjects, subFetches, lastSub, connects, loops,
                   subtitleContainer, rafPending,
                   passes>>
    /\ intents' = <<>>

\* the control is put into a document again and connectedCallback runs once
\* more: it builds another set of controls and listeners, assigns a new
\* #updateHideControls and calls it, calls #updatePaused and requests a frame
\* for another animationLoop.  Followed here for a control on which no click
\* or tap has been classified and no timer is pending, so that the closure
\* variables of every listener set hold the same values.
Connect ==
    /\ ~mounted
    /\ connects < MaxConnects
    /\ hideControlsTimeout = NoTimer /\ playPauseTimeout = NoTimer
    /\ tapJumpTimeout = NoTimer
    /\ lastClickTime = 0 /\ lastTapTime = 0
    /\ mounted' = TRUE
    /\ connects' = connects + 1
    /\ updatePaused(paused)
    /\ loops' = loops + 1
    /\ rafPending' = TRUE
    /\ UNCHANGED <<thumbVars, paused, ended, scrubbing, seeking, videoPausedAtDown,
                   clockVars, tapVars, subtitles, subtitleObjects, subFetches, lastSub,
                   subtitleContainer, passes>>
    /\ intents' = <<>>

(* ----------------------------- specifications -------------------------- *)
\* the control after construction and connectedCallback, no src set yet; the
\* mobile class is the page's to set
InitControl ==
    /\ src = NoSrc
    /\ mediaState = "empty"
    /\ duration = NaN
    /\ currentTime = 0
    /\ videoPaused = TRUE
    /\ loadeddataListeners = 0
    /\ renders = <<>>
    /\ seekbarPreviewImages = <<>>
    /\ seekBarPreviewTimecode = Undefined
    /\ previewImageSrc = NoImage
    /\ srcChanges = 0
    /\ paused = TRUE
    /\ ended = FALSE
    /\ scrubbing = [b \in Bars |-> FALSE]
    /\ seeking = [b \in Bars |-> FALSE]
    /\ intents = <<>>
    /\ videoPausedAtDown = TRUE
    /\ now = StartTime
    /\ controlsHidden = FALSE
    /\ hideControlsTimeout = StartTime + HideDelay
    /\ hideControlsPending = 1
    /\ noClick = FALSE
    /\ releaseIfUntouched = 1
    /\ playPauseTimeout = NoTimer
    /\ playPausePending = 0
    /\ tapJumpTimeout = NoTimer
    /\ tapJumpPending = 0
    /\ screenIsTouched = FALSE
    /\ releaseIfShown = NoGuard
    /\ down = {}
    /\ revealedBy = 0
    /\ lastClickTime = 0
    /\ prevClickTime = 0
    /\ lastTapTime = 0
    /\ lastTapDirection = ""
    /\ deferredRan = FALSE
    /\ fullscreen = FALSE
    /\ subtitles = FALSE
    /\ subtitleObjects = NoTrack
    /\ subFetches = <<>>
    /\ lastSub = Rejected
    /\ connects = 1
    /\ loops = 1
    /\ subtitleContainer = EmptyHTML
    /\ rafPending = TRUE
    /\ passes = 0
    /\ mounted = TRUE

Init ==
    /\ sortEngine \in {"negative", "positive"}
    /\ previewImageIterations \in 0 .. MaxK
    /\ mobile = FALSE
    /\ InitControl

\* thumbnail render and cache: source changes, loads, polls and stalls
Next ==
    \/ \E s \in Sources : SetSrc(s)
    \/ LoadedMetadata
    \/ LoadedData
    \/ \E k \in 1 .. MaxRenders : PollResolves(k)
    \/ \E k \in 1 .. MaxRenders : DecodeStalls(k)

Spec == Init /\ [][Next]_vars

\* preview lookup: one render task, fed by the first loadeddata listener alone,
\* with the preview pipeline and the animation loop running beside it
LookupNext ==
    \/ \E s \in Sources : SetSrc(s)
    \/ LoadedMetadata
    \/ loadeddataListeners = 1 /\ LoadedData
    \/ \E k \in 1 .. MaxRenders : PollResolves(k)
    \/ \E x \in ClientXs, l \in Layouts : DocumentPointerMove(x, l)
    \/ animationLoop

LookupSpec == Init /\ [][LookupNext]_vars

ScrubInit ==
    /\ sortEngine = "negative"
    /\ previewImageIterations = 0
    /\ mobile = FALSE
    /\ InitControl

\* scrub and preview gestures, paused and playing
ScrubNext ==
    \/ \E s \in Sources : SetSrc(s)
    \/ LoadedMetadata
    \/ \E b \in Bars, x \in ClientXs, l \in Layouts : ClickAreaPointerDown(b, x, l)
    \/ \E x \in ClientXs, l \in Layouts : DocumentPointerMove(x, l)
    \/ \E x \in ClientXs, l \in Layouts : DocumentPointerUp(x, l)
    \/ \E key \in PauseKeys, f \in BOOLEAN : KeyDown(key, f)
    \/ PlayPauseButtonClick
    \/ Playback
    \/ MediaEnded
    \/ TimeUpdate

ScrubSpec == ScrubInit /\ [][ScrubNext]_vars

\* pointer input on seek bars of every geometry, zero width included
GeometryNext ==
    \/ \E s \in Sources : SetSrc(s)
    \/ LoadedMetadata
    \/ \E b \in Bars, x \in ClientXs, l \in Layouts : ClickAreaPointerDown(b, x, l)
    \/ \E x \in ClientXs, l \in Layouts \cup ZeroWidthLayouts \cup WidePreviewLayouts :
           DocumentPointerMove(x, l)
    \/ \E x \in ClientXs, l \in Layouts \cup ZeroWidthLayouts : DocumentPointerUp(x, l)

GeometrySpec == ScrubInit /\ [][GeometryNext]_vars

\* every way to seek: scrubs on seek bars of every geometry, jump keys and
\* double taps
SeekNext ==
    \/ SetSrc("a")
    \/ LoadedMetadata
    \/ \E x \in ClientXs, l \in Layouts : ClickAreaPointerDown("seekBar", x, l)
    \/ \E x \in ClientXs, l \in Layouts \cup ZeroWidthLayouts : DocumentPointerMove(x, l)
    \/ \E x \in ClientXs, l \in Layouts : DocumentPointerUp(x, l)
    \/ \E key \in JumpKeys : KeyDown(key, FALSE)
    \/ \E x \in TouchXs : TouchDown(x)

SeekSpec == ScrubInit /\ [][SeekNext]_vars

\* the sub attribute: its fetches, the subtitle switch and the frame loop
SubNext ==
    \/ \E outcome \in Outcomes : SetSub(outcome)
    \/ \E n \in 1 .. MaxFetches : SubFetchSettles(n)
    \/ SubtitlesButtonClick
    \/ animationLoop

SubSpec == ScrubInit /\ [][SubNext]_vars

\* the auto-hide timer with the clock, paused and ended
HideNext ==
    \/ SetSrc("a")
    \/ LoadedMetadata
    \/ Tick
    \/ HideControlsTimeoutFires
    \/ \E t \in {"mouse", "touch"} : PlayerPointerMove(t)
    \/ \E key \in PauseKeys, f \in BOOLEAN : KeyDown(key, f)
    \/ down = {} /\ TouchDown(PlayerLeft + PlayerWidth \div 2)
    \/ Playback
    \/ MediaEnded
    \/ TimeUpdate
    \/ \E p \in Pointers : VideoPointerUp(p)
    \/ ReleaseIfUntouchedFires
    \/ ReleaseIfShownFires

HideSpec == ScrubInit /\ [][HideNext]_vars

\* the auto-hide timer with the deferred toggle of a tap in a jump zone
ToggleNext ==
    \/ HideNext
    \/ down = {} /\ TouchDown(PlayerLeft)
    \/ TapJumpTimeoutFires

ToggleSpec == ScrubInit /\ [][ToggleNext]_vars

\* the activity signals of the mouse and the keyboard
ActivityNext ==
    \/ Tick
    \/ HideControlsTimeoutFires
    \/ ReleaseIfUntouchedFires
    \/ \E t \in {"mouse", "touch"} : PlayerPointerMove(t)
    \/ \E key \in Keys : KeyDown(key, FALSE)
    \/ PlayPauseButtonClick
    \/ \E l \in Layouts : ClickAreaPointerDown("seekBar", 200, l)
    \/ \E l \in Layouts : DocumentPointerUp(200, l)

ActivitySpec == ScrubInit /\ [][ActivityNext]_vars

\* mouse and keyboard only: clicks on the video and on the play button, the
\* pause keys, a scrub, playback up to the end
DesktopNext ==
    \/ srcChanges = 0 /\ SetSrc("a")
    \/ LoadedMetadata
    \/ Tick
    \/ HideControlsTimeoutFires
    \/ ReleaseIfUntouchedFires
    \/ ReleaseIfShownFires
    \/ PlayerPointerMove("mouse")
    \/ \E key \in PauseKeys : KeyDown(key, FALSE)
    \/ PlayPauseButtonClick
    \/ MouseDown(1)
    \/ VideoPointerUp(MousePointer)
    \/ PlayPauseTimeoutFires
    \/ \E l \in Layouts : ClickAreaPointerDown("seekBar", 200, l)
    \/ \E l \in Layouts : DocumentPointerUp(200, l)
    \/ Playback
    \/ MediaEnded
    \/ TimeUpdate

DesktopSpec == ScrubInit /\ [][DesktopNext]_vars

\* the last instant of the behaviours of the click/tap classifier: long enough
\* for a triple click and a deferred toggle
TapHorizon == StartTime + TapTicks * Quantum

\* the classifier of mouse contacts, within a horizon shorter than the delay of
\* hideControlsTimeout
ClickNext ==
    \/ now < TapHorizon /\ Tick
    \/ \E buttons \in {1, 2} : MouseDown(buttons)
    \/ VideoPointerUp(MousePointer)
    \/ PlayPauseTimeoutFires
    \/ ReleaseIfUntouchedFires
    \/ ReleaseIfShownFires

ClickSpec == ScrubInit /\ [][ClickNext]_vars

\* the three timers of the control: mouse clicks and touch taps, one contact
\* at a time, over the full horizon
TimerNext ==
    \/ Tick
    \/ HideControlsTimeoutFires
    \/ down = {} /\ MouseDown(1)
    \/ PlayPauseTimeoutFires
    \/ down = {} /\ \E x \in {PlayerLeft, PlayerLeft + PlayerWidth \div 2} : TouchDown(x)
    \/ TapJumpTimeoutFires
    \/ \E p \in Pointers : VideoPointerUp(p)
    \/ ReleaseIfUntouchedFires
    \/ ReleaseIfShownFires

TimerSpec == ScrubInit /\ [][TimerNext]_vars

\* the classifier of touch contacts, one contact at a time, within the same
\* horizon
TapNext ==
    \/ srcChanges = 0 /\ SetSrc("a")
    \/ LoadedMetadata
    \/ now < TapHorizon /\ Tick
    \/ \E x \in TouchXs : down = {} /\ TouchDown(x)
    \/ TapJumpTimeoutFires
    \/ \E p \in Pointers : VideoPointerUp(p)
    \/ ReleaseIfUntouchedFires
    \/ ReleaseIfShownFires

TapSpec == ScrubInit /\ [][TapNext]_vars

\* the no-click guard under several touch contacts
GuardNext ==
    \/ now < TapHorizon /\ Tick
    \/ \E x \in {PlayerLeft, PlayerLeft + PlayerWidth \div 2} : TouchDown(x)
    \/ \E p \in TouchPointers : VideoPointerUp(p)
    \/ TapJumpTimeoutFires
    \/ ReleaseIfUntouchedFires
    \/ ReleaseIfShownFires

GuardSpec == ScrubInit /\ [][GuardNext]_vars

\* the control is removed from the document while callbacks are pending; the
\* contacts stay down
UnmountNext ==
    \/ SetSrc("a")
    \/ LoadedMetadata
    \/ LoadedData
    \/ \E k \in 1 .. MaxRenders : PollResolves(k)
    \/ Tick
    \/ HideControlsTimeoutFires
    \/ MouseDown(1)
    \/ PlayPauseTimeoutFires
    \/ down = {} /\ TouchDown(PlayerLeft)
    \/ TapJumpTimeoutFires
    \/ animationLoop
    \/ Unmount
    \/ ReleaseIfUntouchedFires

UnmountSpec == ScrubInit /\ [][UnmountNext]_vars

\* the control is moved within the document: it is removed and put back, and
\* the mouse is clicked on the video
ConnectNext ==
    \/ Unmount
    \/ Connect
    \/ animationLoop
    \/ SubtitlesButtonClick
    \/ Tick
    \/ HideControlsTimeoutFires
    \/ ReleaseIfUntouchedFires
    \/ ReleaseIfShownFires
    \/ MouseDown(1)
    \/ VideoPointerUp(MousePointer)
    \/ PlayPauseTimeoutFires

ConnectSpec == ScrubInit /\ [][ConnectNext]_vars

\* the animation loop and the subtitles; the browser runs a pending animation
\* frame callback at the next repaint
SyncNext ==
    \/ SetSrc("a")
    \/ LoadedMetadata
    \/ \E key \in {"k", "c", "ArrowLeft", "ArrowRight", "j", "l"} : KeyDown(key, FALSE)
    \/ SubtitlesButtonClick
    \/ \E track \in Tracks : SubtitlesParsed(track)
    \/ Playback
    \/ animationLoop

SyncSpec == ScrubInit /\ [][SyncNext]_vars /\ WF_vars(animationLoop)

(* --------------------------------- claims ------------------------------ *)
IsPrefix(p, q) == Len(p) <= Len(q) /\ \A n \in 1 .. Len(p) : p[n] = q[n]

\* the odd multiples of D / 2^i below D, ascending
OddMultiples(D, i) == [j \in 1 .. 2 ^ (i - 1) |-> (2 * j - 1) * (D \div 2 ^ i)]

RECURSIVE Schedule(_, _)
\* t = D first, then iterations 1 .. K
Schedule(D, K) == IF K = 0 THEN <<D>> ELSE Schedule(D, K - 1) \o OddMultiples(D, K)

\* C1: a render that runs under one duration D with budget K requests D first and
\* then, for i = 1..K in increasing i, the odd multiples of D/2^i below D in
\* ascending order: what it has requested so far is a prefix of that schedule,
\* all of it once the render is done; for D = 40 and K = 3 the sequence is
\* 40, 20, 10, 30, 5, 15, 25, 35.
C1_SampleOrder ==
    /\ \A k \in DOMAIN renders :
          LET r == renders[k]
              want == Schedule(r.startDuration, previewImageIterations)
          IN  r.steady =>
                /\ IsPrefix(r.requested, want)
                /\ r.phase = "done" => r.requested = want
    /\ Schedule(Sec(40), 3) = << Sec(40), Sec(20), Sec(10), Sec(30),
                                 Sec(5), Sec(15), Sec(25), Sec(35) >>

\* a render of D = 40, K = 3 has run to its end and asked for the eight samples
C1_Witness ==
    \E k \in DOMAIN renders :
        /\ renders[k].phase = "done" /\ renders[k].steady
        /\ previewImageIterations = 3
        /\ renders[k].requested = << Sec(40), Sec(20), Sec(10), Sec(30),
                                     Sec(5), Sec(15), Sec(25), Sec(35) >>

Timecodes(cache) == [n \in DOMAIN cache |-> cache[n].timecode]

\* C2: after every insertion the cache is sorted ascending by timecode, and a
\* completed render of D = 40, K = 3 leaves it as [5, 10, 15, 20, 25, 30, 35, 40].
C2_CacheSorted ==
    /\ \A n \in 1 .. Len(seekbarPreviewImages) - 1 :
          seekbarPreviewImages[n].timecode <= seekbarPreviewImages[n + 1].timecode
    /\ ( /\ Len(renders) = 1 /\ renders[1].phase = "done" /\ renders[1].steady
         /\ renders[1].startDuration = Sec(40) /\ previewImageIterations = 3 )
       => Timecodes(seekbarPreviewImages)
            = << Sec(5), Sec(10), Sec(15), Sec(20), Sec(25), Sec(30), Sec(35), Sec(40) >>

\* the images of the cached frames at or after q
AtOrAfter(cache, q) == {cache[n].image : n \in {m \in DOMAIN cache : Ge(cache[m].timecode, q)}}

PassPost(cache, q, before, after) ==
    IF AtOrAfter(cache, q) # {} THEN after \in AtOrAfter(cache, q) ELSE after = before

\* C3: in every pass of the animation loop, for every cache and query time q: if
\* some cached frame has timecode >= q, the preview shown after the pass is a
\* cached frame with timecode >= q; otherwise (empty cache, no query yet, q past
\* every frame) the preview is left as it was.
C3_PreviewAtOrAfter ==
    /\ [](PassPost(seekbarPreviewImages, seekBarPreviewTimecode, previewImageSrc,
                   PreviewScan(seekbarPreviewImages, seekBarPreviewTimecode,
                               previewImageSrc)))
    /\ [][animationLoop =>
            PassPost(seekbarPreviewImages, seekBarPreviewTimecode, previewImageSrc,
                     previewImageSrc')]_vars

\* a pass has shown a cached frame lying after the query time
C3_Witness ==
    /\ IsNum(seekBarPreviewTimecode)
    /\ previewImageSrc \in AtOrAfter(seekbarPreviewImages, seekBarPreviewTimecode)
    /\ previewImageSrc.at > seekBarPreviewTimecode

\* C4: the frame the scan selects for q is the cached frame with the smallest
\* timecode >= q.
C4_NearestForward ==
    LET n == FirstAtOrAfter(seekbarPreviewImages, seekBarPreviewTimecode, 1)
    IN  n # 0 =>
          \A m \in DOMAIN seekbarPreviewImages :
              Ge(seekbarPreviewImages[m].timecode, seekBarPreviewTimecode)
                 => seekbarPreviewImages[n].timecode <= seekbarPreviewImages[m].timecode

\* C5: once the source has changed no render of an earlier source is in flight
\* and the cache holds no frame sampled from a source other than the current one.
C5_NoStaleFrames ==
    /\ \A n \in DOMAIN seekbarPreviewImages : seekbarPreviewImages[n].image.src = src
    /\ \A k \in DOMAIN renders : Waiting(k) => renders[k].steady

\* C6: a render always goes on: while it waits for a sample, a step that ends the
\* wait is possible, also when the frame asked for never becomes ready.
C6_WaitEnds ==
    \A k \in DOMAIN renders : Waiting(k) => ENABLED PollResolves(k)

\* C7: while a scrub gesture is active the media is not playing.
C7_PausedWhileScrubbing == AnyScrubbing => videoPaused

PointerDown == \E b \in Bars, x \in ClientXs, l \in Layouts : ClickAreaPointerDown(b, x, l)
PointerMove == \E x \in ClientXs, l \in Layouts : DocumentPointerMove(x, l)
PointerUp == \E x \in ClientXs, l \in Layouts : DocumentPointerUp(x, l)

HasIntent(evs, type) == \E n \in DOMAIN evs : evs[n].type = type

LastTimechange(evs) ==
    evs[CHOOSE n \in DOMAIN evs :
           /\ evs[n].type = "timechange"
           /\ \A m \in DOMAIN evs : evs[m].type = "timechange" => m <= n].time

\* C9: a seek bar emits timechange, and changes currentTime, only from the
\* pointerdown on its click area until the next pointerup: scrubbing starts with
\* that pointerdown alone and ends with every pointerup; a pointermove while
\* scrubbing emits timechange and, the duration being known, sets currentTime
\* to its (clamped) time within the same step; a pointermove or pointerup while
\* no bar is scrubbing emits no timechange and leaves currentTime unchanged.
C9_ScrubOnlyInGesture ==
    /\ [](\A n \in DOMAIN intents :
             intents[n].type = "timechange" => scrubbing[intents[n].bar])
    /\ [][ /\ \A b \in Bars :
                (scrubbing'[b] /\ ~scrubbing[b]) =>
                    \E x \in ClientXs, l \in Layouts : ClickAreaPointerDown(b, x, l)
           /\ PointerUp =>
                /\ \A b \in Bars : ~scrubbing'[b]
                /\ ~HasIntent(intents', "timechange")
                /\ ~AnyScrubbing => currentTime' = currentTime
           /\ PointerMove =>
                /\ scrubbing' = scrubbing
                /\ ~AnyScrubbing =>
                      (currentTime' = currentTime /\ ~HasIntent(intents', "timechange"))
                /\ \A b \in Bars : scrubbing[b] =>
                      \E n \in DOMAIN intents' :
                          intents'[n].type = "timechange" /\ intents'[n].bar = b
                /\ (AnyScrubbing /\ IsNum(duration)) =>
                      currentTime' = clamp(0, LastTimechange(intents'), duration) ]_vars

\* a pointermove inside a gesture has moved currentTime to its timecode
C9_Witness ==
    /\ HasIntent(intents, "timechange") /\ HasIntent(intents, "previewtimechange")
    /\ AnyScrubbing /\ IsNum(duration)
    /\ currentTime = LastTimechange(intents) /\ currentTime > 0

\* C10: for a known duration and a rectangle of width > 0, the timecode of every
\* timechange and previewtimechange is clamp(0, clientX - left, width) / width *
\* duration, which lies in [0, duration]; it is 50 for left = 100, width = 200,
\* duration = 100 and clientX = 200.
C10_IntentTimecode ==
    \A n \in DOMAIN intents :
        LET e == intents[n]
        IN  (e.type \in {"timechange", "previewtimechange"}
               /\ IsNum(e.duration) /\ e.width > 0) =>
              /\ e.time = (clamp(0, e.clientX - e.left, e.width) * e.duration) \div e.width
              /\ 0 <= e.time /\ e.time <= e.duration
              /\ (e.left = 100 /\ e.width = 200 /\ e.duration = Sec(100) /\ e.clientX = 200)
                    => e.time = Sec(50)

IsTimeIntent(e) == e.type \in {"timechange", "previewtimechange"}

\* C11: while the duration is unknown, pointer input on the timeline is a no-op:
\* a pointerdown, pointermove or pointerup emits neither timechange nor
\* previewtimechange and leaves currentTime and the preview query time unchanged.
C11_UnknownDurationNoOp ==
    [][ ((PointerDown \/ PointerMove \/ PointerUp) /\ ~IsNum(duration)) =>
          /\ \A n \in DOMAIN intents' : ~IsTimeIntent(intents'[n])
          /\ currentTime' = currentTime
          /\ seekBarPreviewTimecode' = seekBarPreviewTimecode ]_vars

\* C12: while the width of a seek bar is zero, whatever its height, pointer input
\* on it emits neither timechange nor previewtimechange (nothing is divided by
\* the width).
C12_ZeroWidthNoOp ==
    \A n \in DOMAIN intents :
        (IsTimeIntent(intents[n]) /\ IsNum(intents[n].duration)) => intents[n].width # 0

RanLast(name) == intents = Ran(name)

\* C13: a hideControlsTimeout callback that runs while paused or ended makes no
\* transition (controls that are shown stay shown), and the next activity signal
\* (a mouse pointermove, a key press) arms the timer again with its full delay.
C13_InertWhilePausedOrEnded ==
    [][ /\ (HideControlsTimeoutFires /\ (paused \/ ended)) =>
              (controlsHidden' = controlsHidden /\ hideControlsTimeout' = NoTimer)
        /\ (PlayerPointerMove("mouse") \/ \E key \in PauseKeys, f \in BOOLEAN : KeyDown(key, f)) =>
              (~controlsHidden' /\ hideControlsTimeout' = now + HideDelay) ]_vars

\* the timer has run out while ended (and no longer paused) and the controls are
\* still shown
C13_Witness ==
    /\ RanLast("hideControlsTimeout") /\ ended /\ ~paused /\ ~controlsHidden

\* C14: while the session plays (not paused, not ended) the callback of
\* hideControlsTimeout hides the controls, and it runs no later than the delay
\* after the timer was last started: the controls are never shown and playing
\* with the deadline of the timer in the past.
C14_HidesWhenPlaying ==
    /\ [][ (HideControlsTimeoutFires /\ ~paused /\ ~ended) => controlsHidden' ]_vars
    /\ [](hideControlsTimeout # NoTimer =>
             (now <= hideControlsTimeout /\ hideControlsTimeout <= now + HideDelay))

\* the controls were shown, the session played for the whole delay and the timer
\* has hidden them
C14_Witness ==
    /\ RanLast("hideControlsTimeout") /\ controlsHidden /\ ~paused /\ ~ended
    /\ now >= StartTime + HideDelay

\* C15: a mouse pointerdown within doubleClickDuration of the one that started
\* the deferral (the boundary included) toggles fullscreen once, leaves paused
\* alone and cancels the deferred toggle, which has not run; the deferred toggle
\* of a single pointerdown runs when doubleClickDuration has elapsed, toggles
\* paused once and leaves fullscreen alone.
C15_MouseClassifier ==
    [][ /\ (MouseDown(1) /\ now - lastClickTime <= doubleClickDuration) =>
              /\ fullscreen' = ~fullscreen
              /\ paused' = paused
              /\ playPauseTimeout' = NoTimer
              /\ ~deferredRan
        /\ PlayPauseTimeoutFires =>
              /\ paused' = ~paused
              /\ fullscreen' = fullscreen
              /\ now = lastClickTime + doubleClickDuration ]_vars

\* the jump zones: the leftmost and the rightmost fifth of the player
InLeftZone(x) == 5 * (x - PlayerLeft) <= PlayerWidth
InRightZone(x) == 5 * (x - PlayerLeft) >= 4 * PlayerWidth
ZoneOf(x) == IF InLeftZone(x) THEN "l" ELSE IF InRightZone(x) THEN "r" ELSE ""

\* C16: a touch contact in a jump zone within doubleTapJumpDuration of the last
\* one moves currentTime by doubleTapJumpDistance (back in the left zone, forward
\* in the right zone; checked where the target lies within the media) and leaves
\* the controls as they are when the last contact was in the same zone, and
\* performs no jump when it was in the other zone.
C16_DoubleTapJump ==
    [][ \A x \in TouchXs :
          (TouchDown(x) /\ ZoneOf(x) # "" /\ now - lastTapTime <= doubleTapJumpDuration) =>
             IF ZoneOf(x) = lastTapDirection
             THEN /\ controlsHidden' = controlsHidden
                  /\ LET target == currentTime + (IF ZoneOf(x) = "r" THEN 1 ELSE 0 - 1)
                                                   * Sec(doubleTapJumpDistance)
                     IN  (IsNum(duration) /\ 0 <= target /\ target <= duration)
                            => currentTime' = target
             ELSE currentTime' = currentTime ]_vars

\* C17: a touch contact in the centre toggles the controls within its own
\* handling; a contact in a jump zone that is no repeat leaves the controls and
\* defers the toggle by doubleTapJumpDuration; the deferred toggle runs when that
\* time has elapsed and toggles the controls once; every touch contact cancels
\* the toggle that was pending.
C17_SingleTouchToggle ==
    /\ [][ /\ \A x \in TouchXs :
                 TouchDown(x) =>
                   ( /\ (ZoneOf(x) = "") =>
                          (controlsHidden' = ~controlsHidden /\ tapJumpTimeout' = NoTimer)
                     /\ (ZoneOf(x) # "" /\ now - lastTapTime > doubleTapJumpDuration) =>
                          ( /\ controlsHidden' = controlsHidden
                            /\ tapJumpTimeout' = now + doubleTapJumpDuration )
                     /\ tapJumpTimeout' \in {NoTimer, now + doubleTapJumpDuration} )
           /\ TapJumpTimeoutFires =>
                   ( /\ controlsHidden' = ~controlsHidden
                     /\ tapJumpTimeout' = NoTimer
                     /\ now = lastTapTime + doubleTapJumpDuration ) ]_vars
    /\ [](tapJumpTimeout # NoTimer => tapJumpTimeout = lastTapTime + doubleTapJumpDuration)

\* the deferred toggle of a single contact in a jump zone has hidden the controls
C17_Witness ==
    /\ RanLast("tapJumpTimeout") /\ controlsHidden
    /\ now = lastTapTime + doubleTapJumpDuration

\* C18: the animation loop runs forever: whatever has happened, another pass is
\* eventually run.
C18_LoopRunsForever == []<><<animationLoop>>_vars

\* C19: once the control is unmounted no pass of the animation loop runs and no
\* callback of hideControlsTimeout, playPauseTimeout, tapJumpTimeout or of the
\* render's poll runs.
C19_UnmountStopsAll ==
    [][ ~mounted =>
          ~( \/ animationLoop
             \/ HideControlsTimeoutFires
             \/ PlayPauseTimeoutFires
             \/ TapJumpTimeoutFires
             \/ \E k \in 1 .. MaxRenders : PollResolves(k) ) ]_vars

\* the cues of track whose half-open interval [start, end) contains ct
Containing(track, ct) ==
    {n \in DOMAIN track : track[n].start <= ct /\ ct < track[n].end}

Shown(enabled, track, ct) ==
    IF enabled /\ Containing(track, ct) # {}
    THEN Markup(track[CHOOSE n \in Containing(track, ct) :
                         \A m \in Containing(track, ct) : n <= m].text)
    ELSE EmptyHTML

\* the track of the example, in milliseconds
ExampleTrack ==
    << [start |-> 0, end |-> 2000, text |-> "a"], [start |-> 2000, end |-> 4000, text |-> "b"] >>

\* C20: a pass of the animation loop over a parsed track, or with subtitles
\* disabled, shows the text of the first cue in track order whose interval
\* [start, end) contains currentTime, and nothing when there is none or subtitles
\* are disabled; for the track [{0,2,a},{2,4,b}] currentTime 2.0 shows b and
\* 1.999 shows a.
C20_SubtitleShown ==
    /\ [][ (animationLoop /\ (subtitleObjects.parsed \/ ~subtitles)) =>
              subtitleContainer' = Shown(subtitles, subtitleObjects.cues, currentTime) ]_vars
    /\ [](/\ NewSubtitles(TRUE, ExampleTrack, 2000) = Markup("b")
          /\ NewSubtitles(TRUE, ExampleTrack, 1999) = Markup("a")
          /\ NewSubtitles(FALSE, ExampleTrack, 1999) = EmptyHTML)

\* a pass has shown the second of two overlapping cues at the instant the first
\* one ends
C20_Witness ==
    /\ subtitles /\ subtitleObjects.parsed /\ Len(subtitleObjects.cues) = 3
    /\ currentTime = Sec(10) /\ subtitleContainer = Markup("b")

\* C21 .. C30

\* a SubRip text: every block is a number, a timing line and a text
IsSRT(body) ==
    \A n \in DOMAIN body :
        Len(body[n]) = 3 /\ ~body[n][1].arrow /\ body[n][2].arrow /\ ~body[n][3].arrow
CuesOf(body) ==
    [n \in DOMAIN body |->
        [start |-> body[n][2].start, end |-> body[n][2].end, text |-> body[n][3].text]]

\* C21: when a fetch of the sub attribute settles, the subtitle collection is
\* replaced, in that one step, by the cues of the text if the fetch succeeded
\* and the text is SubRip; if the fetch or the parse fails the collection (or
\* its absence) is left as it was.
C21_ReplacedOnlyOnSuccess ==
    [][ \A n \in DOMAIN subFetches : SubFetchSettles(n) =>
          IF subFetches[n].resolved /\ IsSRT(subFetches[n].body)
          THEN subtitleObjects' = Parsed(CuesOf(subFetches[n].body))
          ELSE subtitleObjects' = subtitleObjects ]_vars

\* the target of the seek a step performs: the time of its last timechange, or
\* the sum a jump key or a double tap assigns
ClampedTo(target) ==
    IF target = Infinity THEN duration
    ELSE IF target = NegInfinity THEN 0
    ELSE clamp(0, target, duration)

\* C22: whenever the duration is known 0 <= currentTime <= duration, and a seek
\* (scrub, jump key, double-tap jump) whose target lies outside of [0, duration]
\* moves currentTime to the nearest bound: it is never rejected.
C22_SeekClamped ==
    [][ /\ IsNum(duration') => (0 <= currentTime' /\ currentTime' <= duration')
        /\ (IsNum(duration) /\ HasIntent(intents', "timechange")
               /\ LastTimechange(intents') # NaN
               /\ (PointerDown \/ \E x \in ClientXs, l \in Layouts \cup ZeroWidthLayouts :
                                    DocumentPointerMove(x, l))) =>
              currentTime' = ClampedTo(LastTimechange(intents'))
        /\ \A key \in JumpKeys : (IsNum(duration) /\ KeyDown(key, FALSE)) =>
              currentTime' = ClampedTo(currentTime + KeyJump(key)) ]_vars

\* C23: the ended listener sets ended and paused in one step, ended implies
\* paused in every reachable state, and a timeupdate clears ended.
C23_EndedForcesPaused ==
    /\ [](ended => paused)
    /\ [][MediaEnded => (ended' /\ paused')]_vars
    /\ [][TimeUpdate => ~ended']_vars

\* C24: two renders that run under the same duration and K ask for the same
\* timecodes in the same order: of what two such renders have requested so far
\* one is a prefix of the other, and they are equal once both are done.
C24_ScheduleDeterminism ==
    \A k1 \in DOMAIN renders, k2 \in DOMAIN renders :
        LET r1 == renders[k1]
            r2 == renders[k2]
        IN  (r1.steady /\ r2.steady /\ r1.startDuration = r2.startDuration) =>
              /\ IsPrefix(r1.requested, r2.requested) \/ IsPrefix(r2.requested, r1.requested)
              /\ (r1.phase = "done" /\ r2.phase = "done") => r1.requested = r2.requested

\* two renders of the same source have both run to their end with K = 2
C24_Witness ==
    /\ Len(renders) = 2 /\ previewImageIterations = 2
    /\ \A k \in 1 .. 2 : renders[k].phase = "done" /\ renders[k].steady
    /\ renders[1].startDuration = renders[2].startDuration
    /\ Len(renders[1].requested) = 4 /\ renders[1].requested = renders[2].requested

\* C30: previewtimechange is emitted only for a pointermove whose position lies
\* over the bounding box of the seek bar.
C30_PreviewOnlyOverBar ==
    \A n \in DOMAIN intents :
        intents[n].type = "previewtimechange" =>
            (intents[n].left <= intents[n].clientX
               /\ intents[n].clientX <= intents[n].left + intents[n].width)

\* #updateHideControls has run in the step: the controls are shown and the one
\* pending hideControlsTimeout has its full delay from now
Restarted ==
    /\ ~controlsHidden'
    /\ hideControlsTimeout' = now + HideDelay
    /\ hideControlsPending' = 1

\* C25: the controls start shown; a mouse pointermove on the player, a key
\* press, a change of paused and a change of seeking leave them shown and
\* restart hideControlsTimeout with its full delay from that moment; a touch
\* pointermove changes neither the controls nor the timer.
C25_ActivityShowsAndRestarts ==
    /\ ~controlsHidden
    /\ [][ ( \/ PlayerPointerMove("mouse")
             \/ \E key \in Keys : KeyDown(key, FALSE)
             \/ paused' # paused
             \/ seeking' # seeking ) => Restarted ]_vars
    /\ [][ PlayerPointerMove("touch") =>
             UNCHANGED <<controlsHidden, hideControlsTimeout, hideControlsPending>> ]_vars

\* an activity signal has shown the controls after the first timer had run
C25_Witness ==
    /\ ~controlsHidden /\ ~paused
    /\ now >= StartTime + HideDelay
    /\ hideControlsTimeout = now + HideDelay

C27_TouchToggle ==
    /\ [][ (TouchDown(PlayerLeft + PlayerWidth \div 2) \/ TapJumpTimeoutFires) =>
             /\ controlsHidden' = ~controlsHidden
             /\ controlsHidden => Restarted
             /\ ~controlsHidden =>
                   UNCHANGED <<hideControlsTimeout, hideControlsPending>> ]_vars
    /\ [][ (controlsHidden /\ ~controlsHidden') => Restarted ]_vars

\* a deferred toggle has hidden the controls of an ended, paused player
C27_Witness ==
    /\ RanLast("tapJumpTimeout") /\ controlsHidden /\ paused /\ ended

\* C28: a mouse pointerdown (buttons = 1) within doubleClickDuration of the
\* mouse pointerdown before it toggles fullscreen and leaves no playPauseTimeout
\* pending.
C28_DoubleClickOfPreceding ==
    [][ (MouseDown(1) /\ now - prevClickTime <= doubleClickDuration) =>
          (fullscreen' = ~fullscreen /\ playPauseTimeout' = NoTimer) ]_vars

\* C29: while the touch contact whose pointerdown showed the controls is down,
\* no-click stays set.
C29_SuppressedWhileDown == revealedBy # 0 => noClick

\* C31 .. C40

NoDuplicates(seq) == \A m, n \in DOMAIN seq : seq[m] = seq[n] => m = n

\* C32: the cache never holds two frames of one timecode nor more than
\* 2^(K+1) frames, and no render asks for a timecode twice.
C32_CacheDistinctAndBounded ==
    /\ NoDuplicates(Timecodes(seekbarPreviewImages))
    /\ Len(seekbarPreviewImages) <= 2 ^ (previewImageIterations + 1)
    /\ \A k \in DOMAIN renders : renders[k].steady => NoDuplicates(renders[k].requested)

\* the iterations render r has completed, and the samples it has pushed
Completed(r) == IF r.phase = "done" THEN previewImageIterations ELSE r.i - 1
Pushed(r) ==
    IF r.phase = "done" THEN r.requested ELSE SubSeq(r.requested, 1, Len(r.requested) - 1)
InCache(t) == \E n \in DOMAIN seekbarPreviewImages : seekbarPreviewImages[n].timecode = t

\* C33: once the final frame and the samples of iterations 1..i (i >= 1) of a
\* render of duration D are in the cache, every q in [0, D] has a cached frame
\* with a timecode in [q, q + D / 2^i].
C33_Coverage ==
    \A k \in DOMAIN renders :
        LET r == renders[k]
            i == Completed(r)
            D == r.startDuration
        IN  (r.steady /\ i >= 1 /\ \A n \in DOMAIN Pushed(r) : InCache(Pushed(r)[n])) =>
              LET cached == {seekbarPreviewImages[n].timecode : n \in DOMAIN seekbarPreviewImages}
                  step == D \div 2 ^ i
              IN  \A q \in 0 .. D : \E t \in cached : q <= t /\ t <= q + step

\* the samples of the first two iterations of a render of 40 s are in the cache
\* while the third iteration is under way
C33_Witness ==
    \E k \in DOMAIN renders :
        /\ renders[k].steady /\ renders[k].phase = "waiting" /\ renders[k].i = 3
        /\ renders[k].startDuration = Sec(40)
        /\ \A t \in {Sec(10), Sec(20), Sec(30), Sec(40)} : InCache(t)

\* C35: with subtitles enabled and no subtitle collection (none requested, a
\* fetch pending, or a fetch or parse failed) a pass of the loop ends without a
\* fault: it shows no subtitle and schedules the next pass.
C35_PassWithoutCollection ==
    [][ (animationLoop /\ subtitles /\ ~subtitleObjects.parsed) =>
          (rafPending' /\ subtitleContainer' = EmptyHTML) ]_vars

InFlight == {k \in DOMAIN renders : renders[k].phase = "waiting"}

\* C36: at most one render is in flight, and a load of a source starts exactly
\* one render, however often src has been set before.
C36_OneRender ==
    /\ [](Cardinality(InFlight) <= 1)
    /\ [][LoadedData => Len(renders') = Len(renders) + 1]_vars

\* C39: whenever the controls are hidden, no-click is set.
C39_HiddenImpliesNoClick == controlsHidden => noClick

\* C40: while a scrub gesture is active the controls do not go from shown to
\* hidden.
C40_NoHideWhileScrubbing ==
    [][ (AnyScrubbing /\ AnyScrubbing') => ~(~controlsHidden /\ controlsHidden') ]_vars

\* C37: once every fetch has settled, the subtitle collection is the one parsed
\* from the sub value that was set last (when that one is a SubRip text): a
\* fetch of an earlier value that settles later does not overwrite it.
C37_LatestSubWins ==
    (subFetches = <<>> /\ lastSub.resolved /\ IsSRT(lastSub.body)) =>
        subtitleObjects = Parsed(CuesOf(lastSub.body))

Popovers == {intents[n] : n \in {m \in DOMAIN intents : intents[m].type = "popover"}}
WithinTimeline(e) ==
    e.preview \div 2 <= e.pos /\ e.pos <= e.width - e.preview \div 2

\* C31: every popover position the preview listener sets lies between w/2 and
\* W - w/2, for every pointer position, timeline width W and thumbnail width w.
C31_PopoverWithinTimeline == \A e \in Popovers : WithinTimeline(e)

\* C31, amended: the same whenever the thumbnail is no wider than the timeline
\* (w <= W).
C31_PopoverWithinWideTimeline ==
    \A e \in Popovers : e.preview <= e.width => WithinTimeline(e)

\* a pointer right of both bars, the thumbnail narrower than either: each
\* popover is held at W - w/2
C31_Witness ==
    /\ Popovers # {}
    /\ \A e \in Popovers : /\ 0 < e.preview /\ e.preview < e.width
                             /\ e.clientX > e.left + e.width
                             /\ e.pos = e.width - e.preview \div 2

\* C34: at most one animationLoop pass is scheduled and one mouse click starts
\* one deferred toggle of paused, however many times connectedCallback has run.
C34_SingleLoopAndHandlers == loops <= 1 /\ playPausePending <= 1

\* C38: with mouse and keyboard input only, whenever paused or ended holds the
\* controls are shown.
C38_ShownWhilePausedOrEnded == (paused \/ ended) => ~controlsHidden

\* the player has ended and hideControlsTimeout has run since
C38_Witness ==
    ended /\ paused /\ ~controlsHidden /\ hideControlsTimeout = NoTimer

====
